---- MODULE Spec2Model ----
(***************************************************************************)
(* Model of packages/api-docs-builder/buildApiUtils.ts.                    *)
(*                                                                         *)
(* A JavaScript string is a sequence of one-character strings, so that     *)
(* prefix tests, substring search, replacement and the regular             *)
(* expressions of the source are computed character by character.          *)
(* A JavaScript value that may be undefined, null or thrown is a record    *)
(* [t |-> tag, v |-> payload].                                             *)
(***************************************************************************)
EXTENDS Integers, Sequences, FiniteSets, TLC

VARIABLES
  systemComponents,  \* the module-level `systemComponents` (line 59)
  directory,         \* the directory packages/mui-system/src on disk
  readLog,           \* the listings fs.readdirSync has returned, in order
  calls,             \* number of calls made so far
  files,             \* the files on disk: name -> contents
  prettierConfigs,   \* what prettier.resolveConfig.sync finds per config path
  libLog,            \* the prettier/fs calls writePrettifiedFile has made
  pc,                \* "idle", "called" or "returned"
  call,              \* the call in progress or last made
  ret                \* what the last call returned or threw

vars == <<systemComponents, directory, readLog, calls, files, prettierConfigs,
          libLog, pc, call, ret>>

-----------------------------------------------------------------------------
(* JavaScript values *)

Undefined == [t |-> "undefined", v |-> <<>>]
Null == [t |-> "null", v |-> <<>>]
Val(x) == [t |-> "value", v |-> x]
Threw(x) == [t |-> "threw", v |-> x]

-----------------------------------------------------------------------------
(* Characters and strings *)

UpperSeq == <<"A", "B", "C", "D", "E", "F", "G", "H", "I", "J", "K", "L", "M",
              "N", "O", "P", "Q", "R", "S", "T", "U", "V", "W", "X", "Y", "Z">>
LowerSeq == <<"a", "b", "c", "d", "e", "f", "g", "h", "i", "j", "k", "l", "m",
              "n", "o", "p", "q", "r", "s", "t", "u", "v", "w", "x", "y", "z">>

Range(s) == {s[i] : i \in 1..Len(s)}
IsUpper(c) == c \in Range(UpperSeq)
IsLower(c) == c \in Range(LowerSeq)
IsLetter(c) == IsUpper(c) \/ IsLower(c)

RECURSIVE Concat(_)
\* the concatenation of a sequence of strings
Concat(ss) == IF ss = <<>> THEN <<>> ELSE Head(ss) \o Concat(Tail(ss))

\* the sequences over S of length at most n
SeqsUpTo(S, n) == UNION {[1..k -> S] : k \in 0..n}

\* s has p at (1-based) position i
OccursAt(s, p, i) ==
  /\ i >= 1
  /\ i + Len(p) - 1 <= Len(s)
  /\ \A k \in 1..Len(p) : s[i + k - 1] = p[k]

\* String.prototype.startsWith
StartsWith(s, p) == OccursAt(s, p, 1)

RECURSIVE IndexFrom(_, _, _)
\* the first position >= i at which p occurs in s, 0 when there is none
IndexFrom(s, p, i) ==
  IF i + Len(p) - 1 > Len(s) THEN 0
  ELSE IF OccursAt(s, p, i) THEN i
  ELSE IndexFrom(s, p, i + 1)

\* String.prototype.indexOf, 1-based (0 for JavaScript's -1)
IndexOf(s, p) == IndexFrom(s, p, 1)

\* String.prototype.replace with a string pattern: the first occurrence only
ReplaceFirst(s, p, r) ==
  LET i == IndexOf(s, p) IN
    IF i = 0 THEN s
    ELSE SubSeq(s, 1, i - 1) \o r \o SubSeq(s, i + Len(p), Len(s))

RECURSIVE SplitOn(_, _)
\* String.prototype.split with a one-character separator
SplitOn(s, c) ==
  LET i == IndexOf(s, <<c>>) IN
    IF i = 0 THEN <<s>>
    ELSE <<SubSeq(s, 1, i - 1)>> \o SplitOn(SubSeq(s, i + 1, Len(s)), c)

RECURSIVE JoinWith(_, _)
\* Array.prototype.join with a one-character separator
JoinWith(ss, c) ==
  IF ss = <<>> THEN <<>>
  ELSE IF Len(ss) = 1 THEN ss[1]
  ELSE ss[1] \o <<c>> \o JoinWith(Tail(ss), c)

-----------------------------------------------------------------------------
(* getSystemComponents (lines 59-69) *)

MaxCalls == 3
MaxEntries == 2

\* the entry names the directory may hold
EntryNames ==
  { <<"B", "o", "x">>, <<"S", "x">>, <<"B">>, <<"b", "o", "x">>,
    <<"B", "o", "x", "2">> }

\* a directory listing: distinct entry names
Listings ==
  { l \in SeqsUpTo(EntryNames, MaxEntries) :
      \A i, j \in 1..Len(l) : i # j => l[i] # l[j] }

\* the directory is absent: fs.readdirSync throws
ENOENT == [t |-> "ENOENT", v |-> <<>>]

\* /^[A-Z][a-zA-Z]+$/
IsComponentName(pathname) ==
  /\ Len(pathname) >= 2
  /\ IsUpper(pathname[1])
  /\ \A i \in 2..Len(pathname) : IsLetter(pathname[i])

\* a faulty variant of NeedsRead: an empty list counts as not yet read
NeedsReadEmptyIsUnset(sc) == sc = Undefined \/ sc.v = <<>>

\* `!systemComponents`: only undefined is falsy, an empty array is not
NeedsRead(sc) == sc = Undefined

GetSystemComponents ==
  /\ calls < MaxCalls
  /\ calls' = calls + 1
  /\ pc' = "returned"
  /\ call' = [op |-> "getSystemComponents"]
  /\ IF NeedsRead(systemComponents)
       THEN IF directory = ENOENT
              THEN /\ ret' = Threw(<<"E", "N", "O", "E", "N", "T">>)
                   /\ UNCHANGED <<systemComponents, readLog>>
              ELSE /\ readLog' = Append(readLog, directory.v)
                   /\ systemComponents' = Val(SelectSeq(directory.v, IsComponentName))
                   /\ ret' = systemComponents'
       ELSE /\ ret' = systemComponents
            /\ UNCHANGED <<systemComponents, readLog>>
  /\ UNCHANGED <<directory, files, prettierConfigs, libLog>>

\* the environment creates, removes or changes the directory between calls
ChangeDirectory ==
  /\ \E d \in {ENOENT} \cup {Val(l) : l \in Listings} :
       /\ d # directory
       /\ directory' = d
  /\ UNCHANGED <<systemComponents, readLog, calls, files, prettierConfigs,
                 libLog, pc, call, ret>>

\* the state once the module is imported: nothing read, nothing cached
Init ==
  /\ systemComponents = Undefined
  /\ directory \in {ENOENT} \cup {Val(l) : l \in Listings}
  /\ readLog = <<>>
  /\ calls = 0
  /\ files = <<>>
  /\ prettierConfigs = <<>>
  /\ libLog = <<>>
  /\ pc = "idle"
  /\ call = [op |-> "none"]
  /\ ret = Undefined

Next == GetSystemComponents \/ ChangeDirectory

Spec == Init /\ [][Next]_vars

\* C1: getSystemComponents reads the directory lazily and once: nothing is
\* read before the first call, at most one listing is ever read, and every
\* call that returns, returns the component names of that first listing,
\* whatever the directory holds by then.
C1_LazyReadOnce ==
  /\ (calls = 0 => readLog = <<>>)
  /\ Len(readLog) <= 1
  /\ (call.op = "getSystemComponents" /\ ret.t = "value") =>
       /\ Len(readLog) = 1
       /\ \A n \in EntryNames :
            (n \in Range(ret.v)) <=> (n \in Range(readLog[1]) /\ IsComponentName(n))
       /\ \A i, j \in 1..Len(ret.v) : i < j =>
            \E a, b \in 1..Len(readLog[1]) :
              a < b /\ readLog[1][a] = ret.v[i] /\ readLog[1][b] = ret.v[j]

\* a later call has returned the first listing after the directory changed
C1_Witness ==
  /\ calls >= 2
  /\ call.op = "getSystemComponents"
  /\ ret.t = "value"
  /\ Len(readLog) = 1
  /\ directory # Val(readLog[1])
  /\ directory # ENOENT

-----------------------------------------------------------------------------
(* writePrettifiedFile (lines 36-57) *)

\* process.cwd()
Cwd == <<"/", "w">>

\* path.join(process.cwd(), 'prettier.config.js')
DEFAULT_PRETTIER_CONFIG_PATH ==
  Cwd \o <<"/", "p", "r", "e", "t", "t", "i", "e", "r", ".", "c", "o", "n",
           "f", "i", "g", ".", "j", "s">>

\* the target files of the calls
Filenames == { <<"a", ".", "j", "s">>, <<"b", ".", "t", "s">> }

\* the config paths a caller passes
GivenConfigPaths == { <<"/", "p", ".", "j", "s">> }

ConfigPaths == GivenConfigPaths \cup {DEFAULT_PRETTIER_CONFIG_PATH}

\* the source texts of the calls; "!" stands for text that does not parse
Datas == { <<"a">>, <<"a", ";">>, <<"a", ";", "\n", "\n">>, <<"a", "!">> }

\* what prettier.resolveConfig.sync can make of a config path: no
\* configuration (null), a configuration, or an error for a file it cannot load
ConfigOutcomes ==
  { Null, Val([semi |-> TRUE]), Val([semi |-> FALSE]),
    Threw(<<"I", "n", "v", "a", "l", "i", "d">>) }

\* `{ ...prettierConfig, filepath: filename }`: spreading null adds nothing,
\* and prettier's own default for semi is true
FormatOptions(prettierConfig) ==
  IF prettierConfig.t = "value" THEN prettierConfig.v ELSE [semi |-> TRUE]

RECURSIVE StripTrailing(_, _)
\* s without the characters of C at its end
StripTrailing(s, C) ==
  IF s # <<>> /\ s[Len(s)] \in C THEN StripTrailing(SubSeq(s, 1, Len(s) - 1), C) ELSE s

\* prettier.format on a one-statement text: a SyntaxError for text that does
\* not parse, else the statement with the configured semicolon and one newline
PrettierFormat(data, options) ==
  IF "!" \in Range(data)
    THEN Threw(<<"S", "y", "n", "t", "a", "x", "E", "r", "r", "o", "r">>)
    ELSE Val(StripTrailing(data, {";", "\n"})
               \o (IF options.semi THEN <<";">> ELSE <<>>) \o <<"\n">>)

\* the message of the Error thrown at lines 48-50
NoConfigMessage(filename, prettierConfigPath) ==
  Concat(<< <<"C", "o", "u", "l", "d", " ", "n", "o", "t", " ", "r", "e", "s",
              "o", "l", "v", "e", " ", "c", "o", "n", "f", "i", "g", " ", "f",
              "o", "r", " ", "'">>,
            filename,
            <<"'", " ", "u", "s", "i", "n", "g", " ", "p", "r", "e", "t", "t",
              "i", "e", "r", " ", "c", "o", "n", "f", "i", "g", " ", "p", "a",
              "t", "h", " ", "'">>,
            prettierConfigPath,
            <<"'", ".">> >>)

\* a faulty variant of ConfigMissing: the test is made against undefined
ConfigMissingUndefined(prettierConfig) == prettierConfig = Undefined

\* `prettierConfig === null`
ConfigMissing(prettierConfig) == prettierConfig = Null

\* the default parameter value of prettierConfigPath (line 41)
ConfigPathOf(arg) == IF arg = Undefined THEN DEFAULT_PRETTIER_CONFIG_PATH ELSE arg.v

\* `{ encoding: 'utf8', ...options }`
EncodingOf(options) == IF options = Undefined THEN "utf8" ELSE options.v

WritePrettifiedFile ==
  \E filename \in Filenames, data \in Datas,
     configArg \in {Undefined} \cup {Val(p) : p \in GivenConfigPaths},
     options \in {Undefined, Val("latin1")} :
    LET prettierConfigPath == ConfigPathOf(configArg)
        prettierConfig == prettierConfigs[prettierConfigPath]
        formatted == PrettierFormat(data, FormatOptions(prettierConfig))
    IN
      /\ pc' = "returned"
      /\ call' = [op |-> "writePrettifiedFile", filename |-> filename,
                  data |-> data, prettierConfigPath |-> configArg,
                  options |-> options]
      /\ IF prettierConfig.t = "threw"
           THEN /\ libLog' = <<"resolveConfig">>
                /\ ret' = prettierConfig
                /\ UNCHANGED files
         ELSE IF ConfigMissing(prettierConfig)
           THEN /\ libLog' = <<"resolveConfig">>
                /\ ret' = Threw(NoConfigMessage(filename, prettierConfigPath))
                /\ UNCHANGED files
         ELSE IF formatted.t = "threw"
           THEN /\ libLog' = <<"resolveConfig", "format">>
                /\ ret' = formatted
                /\ UNCHANGED files
         ELSE /\ libLog' = <<"resolveConfig", "format", "writeFileSync">>
              /\ files' = [files EXCEPT ![filename] =
                             Val([data |-> formatted.v, encoding |-> EncodingOf(options)])]
              /\ ret' = Undefined
      /\ UNCHANGED <<systemComponents, directory, readLog, calls, prettierConfigs>>

\* a file that is on disk before any call
OldFile == Val([data |-> <<"o", "l", "d">>, encoding |-> "utf8"])

InitWrite ==
  /\ systemComponents = Undefined
  /\ directory = ENOENT
  /\ readLog = <<>>
  /\ calls = 0
  /\ files \in [Filenames -> {Undefined, OldFile}]
  /\ prettierConfigs \in [ConfigPaths -> ConfigOutcomes]
  /\ libLog = <<>>
  /\ pc = "idle"
  /\ call = [op |-> "none"]
  /\ ret = Undefined

NextWrite == WritePrettifiedFile

SpecWrite == InitWrite /\ [][NextWrite]_vars

\* C2: a call of writePrettifiedFile for which no configuration is resolved
\* throws an error whose message names the target file and the config path,
\* runs no formatter and leaves every file as it was; and a call changes a
\* file only when a configuration was resolved.
C2_NoConfigNoWrite ==
  [][ /\ (/\ call'.op = "writePrettifiedFile"
          /\ prettierConfigs[ConfigPathOf(call'.prettierConfigPath)] = Null)
        => /\ ret'.t = "threw"
           /\ IndexOf(ret'.v, call'.filename) > 0
           /\ IndexOf(ret'.v, ConfigPathOf(call'.prettierConfigPath)) > 0
           /\ files' = files
           /\ "format" \notin Range(libLog')
           /\ "writeFileSync" \notin Range(libLog')
      /\ (files' # files)
        => /\ call'.op = "writePrettifiedFile"
           /\ prettierConfigs[ConfigPathOf(call'.prettierConfigPath)].t = "value"
           /\ libLog'[1] = "resolveConfig"
           /\ libLog'[Len(libLog')] = "writeFileSync" ]_vars

\* a call found no configuration for an existing target file and threw
C2_Witness ==
  /\ call.op = "writePrettifiedFile"
  /\ prettierConfigs[ConfigPathOf(call.prettierConfigPath)] = Null
  /\ ret.t = "threw"
  /\ files[call.filename] = OldFile
  /\ \E f \in Filenames : files[f] # OldFile /\ files[f] # Undefined

-----------------------------------------------------------------------------
(* fixPathname (lines 15-34) *)

MaxPathFrags == 3

sMaterial == <<"/", "m", "a", "t", "e", "r", "i", "a", "l">>
sJoy == <<"/", "j", "o", "y">>
sBase == <<"/", "b", "a", "s", "e">>
sBaseDir == <<"/", "b", "a", "s", "e", "/">>
sBaseUiDir == <<"/", "b", "a", "s", "e", "-", "u", "i", "/">>
sComponentsDir == <<"/", "c", "o", "m", "p", "o", "n", "e", "n", "t", "s", "/">>
sReact == <<"/", "r", "e", "a", "c", "t", "-">>
sMaterialUi == <<"m", "a", "t", "e", "r", "i", "a", "l", "-", "u", "i">>
sJoyUi == <<"j", "o", "y", "-", "u", "i">>

\* the pieces the pathnames of the calls are put together from
PathFrags ==
  { sMaterial, sJoy, sBase, sBaseDir, sComponentsDir, sMaterialUi, <<"/">>, <<"b">> }

Pathnames == { Concat(fs) : fs \in SeqsUpTo(PathFrags, MaxPathFrags) }

\* replaceComponentLinks of ./utils/replaceUrl: legacy component links become
\* material-ui ones
ReplaceComponentLinks(url) ==
  ReplaceFirst(url, sComponentsDir, <<"/">> \o sMaterialUi \o sReact)

\* String.prototype.replace with the pattern /^prefix/
StripPrefix(s, prefix) ==
  IF StartsWith(s, prefix) THEN SubSeq(s, Len(prefix) + 1, Len(s)) ELSE s

\* a faulty variant of fixPathname: the /base branch is missing
fixPathnameNoBaseBranch(pathname) ==
  IF StartsWith(pathname, sMaterial)
    THEN ReplaceComponentLinks(StripPrefix(pathname, sMaterial) \o <<"/">>)
  ELSE IF StartsWith(pathname, sJoy)
    THEN ReplaceFirst(ReplaceComponentLinks(StripPrefix(pathname, sJoy) \o <<"/">>),
                      sMaterialUi, sJoyUi)
  ELSE ReplaceFirst(pathname, sComponentsDir, sReact) \o <<"/">>

fixPathname(pathname) ==
  IF StartsWith(pathname, sMaterial)
    THEN ReplaceComponentLinks(StripPrefix(pathname, sMaterial) \o <<"/">>)
  ELSE IF StartsWith(pathname, sJoy)
    THEN ReplaceFirst(ReplaceComponentLinks(StripPrefix(pathname, sJoy) \o <<"/">>),
                      sMaterialUi, sJoyUi)
  ELSE IF StartsWith(pathname, sBase)
    THEN ReplaceFirst(ReplaceFirst(pathname, sBaseDir, sBaseUiDir),
                      sComponentsDir, sReact) \o <<"/">>
  ELSE ReplaceFirst(pathname, sComponentsDir, sReact) \o <<"/">>

FixPathnameCalls == { [op |-> "fixPathname", pathname |-> p] : p \in Pathnames }

FixPathname ==
  /\ pc = "called"
  /\ call.op = "fixPathname"
  /\ pc' = "returned"
  /\ ret' = Val(fixPathname(call.pathname))
  /\ UNCHANGED <<systemComponents, directory, readLog, calls, files,
                 prettierConfigs, libLog, call>>

-----------------------------------------------------------------------------
(* getMuiName (lines 71-73) *)

MaxNameFrags == 3

sStyled == <<"S", "t", "y", "l", "e", "d">>
sMui == <<"M", "u", "i">>

\* the pieces the names of the calls are put together from
NameFrags == { sStyled, <<"B">>, <<"S">>, <<"t", "y", "l", "e", "d">>, <<"e", "d">> }

MuiNames == { Concat(fs) : fs \in SeqsUpTo(NameFrags, MaxNameFrags) }

\* a faulty variant of getMuiName: only a leading Styled is stripped
getMuiNamePrefixOnly(name) == sMui \o StripPrefix(name, sStyled)

getMuiName(name) == sMui \o ReplaceFirst(name, sStyled, <<>>)

GetMuiNameCalls == { [op |-> "getMuiName", name |-> n] : n \in MuiNames }

GetMuiName ==
  /\ pc = "called"
  /\ call.op = "getMuiName"
  /\ pc' = "returned"
  /\ ret' = Val(getMuiName(call.name))
  /\ UNCHANGED <<systemComponents, directory, readLog, calls, files,
                 prettierConfigs, libLog, call>>

-----------------------------------------------------------------------------
(* extractPackageFile (lines 75-88) *)

MaxDepth == 1

sPackages == <<"/", "p", "a", "c", "k", "a", "g", "e", "s">>
sSrcDir == <<"/", "s", "r", "c", "/">>
sXDash == <<"x", "-">>
sMuiDash == <<"m", "u", "i", "-">>

\* js|tsx|ts|d\.ts, in the order of the alternation
Extensions ==
  << <<"j", "s">>, <<"t", "s", "x">>, <<"t", "s">>, <<"d", ".", "t", "s">> >>

\* path.sep of the platform
PathSep(platform) == IF platform = "win32" THEN "\\" ELSE "/"

\* String.prototype.replace with a one-character global pattern
ReplaceAllChar(s, c, r) == [i \in 1..Len(s) |-> IF s[i] = c THEN r ELSE s[i]]

MaxOf(S) == CHOOSE x \in S : \A y \in S : y <= x

RECURSIVE RunEnd(_, _)
\* [^/]+ at its greediest: the last position of the run of non-slash
\* characters that starts at i (i - 1 when there is none)
RunEnd(s, i) == IF i <= Len(s) /\ s[i] # "/" THEN RunEnd(s, i + 1) ELSE i - 1

\* (js|tsx|ts|d\.ts) matches at position i
ExtAt(s, i) == \E k \in 1..Len(Extensions) : OccursAt(s, Extensions[k], i)

\* the ends e of (?<name>[^/]+) started at `from` after which \.(js|tsx|ts|d\.ts)
\* matches
NameEnds(s, from) ==
  { e \in from..RunEnd(s, from) : OccursAt(s, <<".">>, e + 1) /\ ExtAt(s, e + 2) }

\* where (?<name>...) can start with the optional group (.*\/) taken: after
\* any slash at or after position i
GroupStarts(s, i) == { c + 1 : c \in { d \in i..Len(s) : s[d] = "/" } }

\* (.*\/)?(?<name>[^/]+)\.(js|tsx|ts|d\.ts) from position i: the group is
\* tried first and at its longest, then left out; the name is as long as the
\* rest allows
TailMatch(s, i) ==
  LET withGroup == { st \in GroupStarts(s, i) : NameEnds(s, st) # {} } IN
    IF withGroup # {}
      THEN [ok |-> TRUE, from |-> MaxOf(withGroup),
            to |-> MaxOf(NameEnds(s, MaxOf(withGroup)))]
    ELSE IF NameEnds(s, i) # {}
      THEN [ok |-> TRUE, from |-> i, to |-> MaxOf(NameEnds(s, i))]
    ELSE [ok |-> FALSE, from |-> 0, to |-> 0]

\* \/(?<packagePath>[^/]+)\/src\/ and the rest match with the slash at b
PackageAt(s, b) ==
  /\ b <= Len(s)
  /\ s[b] = "/"
  /\ RunEnd(s, b + 1) >= b + 1
  /\ OccursAt(s, sSrcDir, RunEnd(s, b + 1) + 1)
  /\ TailMatch(s, RunEnd(s, b + 1) + Len(sSrcDir) + 1).ok

\* the slashes in front of (?<packagePath>...) with which the pattern
\* matches, \/packages being at a
PackageSlashes(s, a) == { b \in (a + Len(sPackages))..Len(s) : PackageAt(s, b) }

\* where \/packages can be for the pattern to match
PackagesStarts(s) ==
  { a \in 1..Len(s) : OccursAt(s, sPackages, a) /\ PackageSlashes(s, a) # {} }

\* String.prototype.match with the pattern of line 78: the two greedy .* put
\* \/packages, then the slash in front of the package directory, as far right
\* as a match allows
MatchPackageFile(s) ==
  IF PackagesStarts(s) = {} THEN [ok |-> FALSE, packagePath |-> <<>>, name |-> <<>>]
  ELSE LET a == MaxOf(PackagesStarts(s))
           b == MaxOf(PackageSlashes(s, a))
           pe == RunEnd(s, b + 1)
           tail == TailMatch(s, pe + Len(sSrcDir) + 1)
       IN [ok |-> TRUE, packagePath |-> SubSeq(s, b + 1, pe),
           name |-> SubSeq(s, tail.from, tail.to)]

\* a faulty variant of MuiPackageOf: no optional chaining, a null packagePath throws
MuiPackageOfNoChain(packagePath) ==
  IF packagePath = Null THEN Threw(<<"T", "y", "p", "e", "E", "r", "r", "o", "r">>)
  ELSE Val(ReplaceFirst(packagePath.v, sXDash, sMuiDash))

\* `result.packagePath?.replace('x-', 'mui-')`
MuiPackageOf(packagePath) ==
  IF packagePath = Null THEN Undefined
  ELSE Val(ReplaceFirst(packagePath.v, sXDash, sMuiDash))

extractPackageFile(filePath, platform) ==
  LET normalised == ReplaceAllChar(filePath, PathSep(platform), "/")
      match == MatchPackageFile(normalised)
      packagePath == IF match.ok THEN Val(match.packagePath) ELSE Null
      name == IF match.ok THEN Val(match.name) ELSE Null
      muiPackage == MuiPackageOf(packagePath)
  IN IF muiPackage.t = "threw" THEN muiPackage
     ELSE Val([packagePath |-> packagePath, name |-> name, muiPackage |-> muiPackage])

\* the parts the file paths of the calls are put together from
PathPrefixes == { <<"/", "r">>, sPackages \o <<"/", "q">> \o sSrcDir \o <<"r">> }
PackagesDirs == { sPackages, sPackages \o <<"-", "x">>, <<"/", "p", "k", "g", "s">> }
PackageDirs ==
  { <<"/", "a">>, <<"/", "x", "-", "a">>, <<"/", "a", "x", "-", "b">>,
    <<"/", "x", "-", "x", "-", "a">> }
SourceDirs == { sSrcDir, <<"/", "l", "i", "b", "/">> }
SubDirs == { <<"c", "/">>, <<"s", "r", "c", "/">> }
BaseNames == { <<"B">>, <<"B", ".", "d">>, <<"b", "-", "c">> }
FileEndings ==
  { <<".", "j", "s">>, <<".", "t", "s", "x">>, <<".", "t", "s">>,
    <<".", "j", "s", "o", "n">>, <<".", "m", "d">>,
    <<".", "j", "s", "/", "c">> }

PosixPaths ==
  { Concat(<<pre, pk, dir, src, Concat(sub), base, ending>>) :
      pre \in PathPrefixes, pk \in PackagesDirs, dir \in PackageDirs,
      src \in SourceDirs, sub \in SeqsUpTo(SubDirs, MaxDepth),
      base \in BaseNames, ending \in FileEndings }

\* a path as each platform writes it, and a Windows path met on POSIX
ExtractPackageFileCalls ==
  { [op |-> "extractPackageFile", filePath |-> p, platform |-> "posix"] :
      p \in PosixPaths }
  \cup
  { [op |-> "extractPackageFile", filePath |-> ReplaceAllChar(p, "/", "\\"),
     platform |-> pf] : p \in PosixPaths, pf \in {"win32", "posix"} }

ExtractPackageFile ==
  /\ pc = "called"
  /\ call.op = "extractPackageFile"
  /\ pc' = "returned"
  /\ ret' = extractPackageFile(call.filePath, call.platform)
  /\ UNCHANGED <<systemComponents, directory, readLog, calls, files,
                 prettierConfigs, libLog, call>>

-----------------------------------------------------------------------------
(* getApiPath (lines 161-176) *)

MaxDemos == 2

sUse == <<"u", "s", "e">>
sHooksApi == <<"h", "o", "o", "k", "s", "-", "a", "p", "i">>
sComponentsApi == <<"c", "o", "m", "p", "o", "n", "e", "n", "t", "s", "-", "a", "p", "i">>

\* String.prototype.toLowerCase on one character
ToLower(c) ==
  IF IsUpper(c) THEN LowerSeq[CHOOSE i \in 1..Len(UpperSeq) : UpperSeq[i] = c] ELSE c

\* lodash's words() on a name made of letters: a word begins at an upper-case
\* letter that follows a lower-case one, or that follows an upper-case one
\* and is followed by a lower-case one
WordBreakBefore(s, i) ==
  /\ i > 1
  /\ IsUpper(s[i])
  /\ \/ IsLower(s[i - 1])
     \/ IsUpper(s[i - 1]) /\ i < Len(s) /\ IsLower(s[i + 1])

\* lodash/kebabCase on a name made of letters: the words in lower case,
\* joined by hyphens
kebabCase(s) ==
  Concat([i \in 1..Len(s) |->
            IF WordBreakBefore(s, i) THEN <<"-", ToLower(s[i])>> ELSE <<ToLower(s[i])>>])

\* a faulty variant of getApiPath: the hash of the demo pathname is kept
getApiPathHashKept(demos, name) ==
  IF demos.t = "value" /\ Len(demos.v) > 0
    THEN Val(Concat(<<demos.v[1].demoPathname,
                      IF StartsWith(name, sUse) THEN sHooksApi ELSE sComponentsApi,
                      <<"/", "#">>,
                      kebabCase(name)>>))
    ELSE Null

getApiPath(demos, name) ==
  IF demos.t = "value" /\ Len(demos.v) > 0
    THEN LET cleanedDemosPathname == SplitOn(demos.v[1].demoPathname, "#")[1] IN
         Val(Concat(<<cleanedDemosPathname,
                      IF StartsWith(name, sUse) THEN sHooksApi ELSE sComponentsApi,
                      <<"/", "#">>,
                      kebabCase(name)>>))
    ELSE Null

\* the demos of the calls
DemoPathnames ==
  { <<"/", "d", "/">>, <<"/", "d", "/", "#", "h">>, <<"#", "h">>,
    <<"/", "e", "#", "h", "#", "/">> }
DemoPageTitles == { <<"t">>, <<"T", "#">> }
Demos ==
  { [demoPageTitle |-> t, demoPathname |-> p] : t \in DemoPageTitles, p \in DemoPathnames }

\* the names of the calls
ApiNames ==
  { <<"u", "s", "e", "B", "t">>, <<"B", "t">>, sUse, <<"u", "s">>,
    <<"U", "s", "e", "B">>, <<"u", "s", "e", "A", "B", "c">>,
    <<"r", "e", "u", "s", "e">>, <<"A", "B">> }

GetApiPathCalls ==
  { [op |-> "getApiPath", demos |-> d, name |-> n] :
      d \in {Undefined, Null} \cup {Val(ds) : ds \in SeqsUpTo(Demos, MaxDemos)},
      n \in ApiNames }

GetApiPath ==
  /\ pc = "called"
  /\ call.op = "getApiPath"
  /\ pc' = "returned"
  /\ ret' = getApiPath(call.demos, call.name)
  /\ UNCHANGED <<systemComponents, directory, readLog, calls, files,
                 prettierConfigs, libLog, call>>

-----------------------------------------------------------------------------
(* parseFile (lines 90-103) *)

MaxContentFrags == 2

sInternal == <<"i", "n", "t", "e", "r", "n", "a", "l">>
sIgnoreComponent ==
  <<"@", "i", "g", "n", "o", "r", "e", " ", "-", " ", "i", "n", "t", "e", "r",
    "n", "a", "l", " ", "c", "o", "m", "p", "o", "n", "e", "n", "t">>
sIgnoreHook ==
  <<"@", "i", "g", "n", "o", "r", "e", " ", "-", " ", "i", "n", "t", "e", "r",
    "n", "a", "l", " ", "h", "o", "o", "k">>
sIgnoreDocument ==
  <<"@", "i", "g", "n", "o", "r", "e", " ", "-", " ", "d", "o", " ", "n", "o",
    "t", " ", "d", "o", "c", "u", "m", "e", "n", "t">>
sExactProp == <<" ", "=", " ", "e", "x", "a", "c", "t", "P", "r", "o", "p", "(">>
sInheritedComponent ==
  <<"/", "/", " ", "@", "i", "n", "h", "e", "r", "i", "t", "e", "d", "C", "o",
    "m", "p", "o", "n", "e", "n", "t", " ">>

\* the characters the . of a regular expression does not match
LineTerminators == {"\n", "\r"}

\* a faulty variant of shouldSkip: the dots of the three patterns are not escaped, so
\* each matches any character but a line terminator
shouldSkipAnyCharForDot(filename, src) ==
  \/ IndexOf(filename, sInternal) # 0
  \/ \E m \in {sIgnoreComponent, sIgnoreHook, sIgnoreDocument} :
       \E i \in 1..Len(src) :
         /\ OccursAt(src, m, i)
         /\ i + Len(m) <= Len(src)
         /\ src[i + Len(m)] \notin LineTerminators

\* lines 94-98
shouldSkip(filename, src) ==
  \/ IndexOf(filename, sInternal) # 0
  \/ IndexOf(src, sIgnoreComponent \o <<".">>) # 0
  \/ IndexOf(src, sIgnoreHook \o <<".">>) # 0
  \/ IndexOf(src, sIgnoreDocument \o <<".">>) # 0

\* os.EOL
OsEOL(platform) == IF platform = "win32" THEN <<"\r", "\n">> ELSE <<"\n">>

\* getLineFeed of @mui-internal/docs-utilities: the first line ending of the
\* text, the platform's when it has none
getLineFeed(src, platform) ==
  LET i == IndexOf(src, <<"\n">>) IN
    IF i = 0 THEN OsEOL(platform)
    ELSE IF i > 1 /\ src[i - 1] = "\r" THEN <<"\r", "\n">>
    ELSE <<"\n">>

RECURSIVE LineRest(_, _)
\* (.*) from position i: the characters up to the next line terminator
LineRest(s, i) ==
  IF i <= Len(s) /\ s[i] \notin LineTerminators THEN <<s[i]>> \o LineRest(s, i + 1)
  ELSE <<>>

\* `src.match(/\/\/ @inheritedComponent (.*)/)?.[1]`
inheritedComponent(src) ==
  LET i == IndexOf(src, sInheritedComponent) IN
    IF i = 0 THEN Undefined ELSE Val(LineRest(src, i + Len(sInheritedComponent)))

parseFile(filename, platform, disk) ==
  IF disk[filename] = Undefined THEN Threw(<<"E", "N", "O", "E", "N", "T">>)
  ELSE LET src == disk[filename].v.data IN
       Val([src |-> src,
            shouldSkip |-> shouldSkip(filename, src),
            spread |-> IndexOf(src, sExactProp) = 0,
            EOL |-> getLineFeed(src, platform),
            inheritedComponent |-> inheritedComponent(src)])

\* the files parseFile is called on
SourceFilenames ==
  { <<"B", ".", "j", "s">>,
    <<"i", "n", "t", "e", "r", "n", "a", "l", "/", "B", ".", "j", "s">>,
    <<"I", "n", "t", "e", "r", "n", "a", "l", ".", "j", "s">>,
    <<"i", "n", "t", "e", "r", "n", "/", "a", "l", ".", "j", "s">>,
    <<"u", "s", "e", "i", "n", "t", "e", "r", "n", "a", "l", "s", ".", "t", "s">> }

\* the pieces their contents are put together from
ContentFrags ==
  { sIgnoreComponent, sIgnoreHook, sIgnoreDocument, <<".">>, <<"s">>, <<"\n">>,
    <<"\r", "\n">>, sExactProp, sInheritedComponent \o <<"B">> }

Contents == { Concat(fs) : fs \in SeqsUpTo(ContentFrags, MaxContentFrags) }

ParseFileCalls ==
  { [op |-> "parseFile", filename |-> f, platform |-> pf] :
      f \in SourceFilenames, pf \in {"posix", "win32"} }

\* the disk a call finds: for parseFile its file, with some contents or absent
DisksOf(c) ==
  IF c.op = "parseFile"
    THEN { [f \in {c.filename} |-> d] :
             d \in {Undefined}
                     \cup {Val([data |-> x, encoding |-> "utf8"]) : x \in Contents} }
    ELSE { <<>> }

ParseFile ==
  /\ pc = "called"
  /\ call.op = "parseFile"
  /\ pc' = "returned"
  /\ ret' = parseFile(call.filename, call.platform, files)
  /\ UNCHANGED <<systemComponents, directory, readLog, calls, files,
                 prettierConfigs, libLog, call>>

-----------------------------------------------------------------------------
(* getSymbolDescription (lines 197-203) *)

MaxComments == 2

sTODO == <<"T", "O", "D", "O">>

\* a faulty variant of IsTodoLine: TODO anywhere in the line
IsTodoLineAnywhere(line) == IndexOf(line, sTODO) # 0

\* `line.startsWith('TODO')`
IsTodoLine(line) == StartsWith(line, sTODO)

IsKeptLine(line) == ~IsTodoLine(line)

\* `.flatMap((comment) => comment.text.split('\n'))`
FlatLines(comments) == Concat([i \in 1..Len(comments) |-> SplitOn(comments[i], "\n")])

getSymbolDescription(comments) ==
  JoinWith(SelectSeq(FlatLines(comments), IsKeptLine), "\n")

\* the texts of the documentation-comment parts of the symbols
CommentTexts ==
  { <<>>, <<"a">>, sTODO \o <<" ", "b">>, <<"a", "\n">> \o sTODO,
    sTODO \o <<"\n", "a">>, <<" ">> \o sTODO, <<"T", "O">>,
    <<"a", "\n", "\n", "b">> }

GetSymbolDescriptionCalls ==
  { [op |-> "getSymbolDescription", comments |-> cs] :
      cs \in SeqsUpTo(CommentTexts, MaxComments) }

GetSymbolDescription ==
  /\ pc = "called"
  /\ call.op = "getSymbolDescription"
  /\ pc' = "returned"
  /\ ret' = Val(getSymbolDescription(call.comments))
  /\ UNCHANGED <<systemComponents, directory, readLog, calls, files,
                 prettierConfigs, libLog, call>>

-----------------------------------------------------------------------------
(* One call of a function of the module, its arguments drawn at the start *)

PureCalls ==
  FixPathnameCalls \cup GetMuiNameCalls \cup ExtractPackageFileCalls
    \cup GetApiPathCalls \cup ParseFileCalls \cup GetSymbolDescriptionCalls

InitPure ==
  /\ systemComponents = Undefined
  /\ directory = ENOENT
  /\ readLog = <<>>
  /\ calls = 0
  /\ prettierConfigs = <<>>
  /\ libLog = <<>>
  /\ pc = "called"
  /\ call \in PureCalls
  /\ files \in DisksOf(call)
  /\ ret = Undefined

NextPure ==
  \/ FixPathname
  \/ GetMuiName
  \/ ExtractPackageFile
  \/ GetApiPath
  \/ ParseFile
  \/ GetSymbolDescription

SpecPure == InitPure /\ [][NextPure]_vars

-----------------------------------------------------------------------------
(* What the claims say of a replacement, stated without the search loop *)

\* p is in s at position i
ClaimAt(s, p, i) == i + Len(p) - 1 <= Len(s) /\ SubSeq(s, i, i + Len(p) - 1) = p

\* s has p somewhere
ClaimHas(s, p) == \E i \in 1..Len(s) : ClaimAt(s, p, i)

\* out is s with its first p replaced by r (s itself when it has no p)
ClaimFirstReplaced(s, p, r, out) ==
  IF ClaimHas(s, p)
    THEN \E i \in 1..Len(s) :
           /\ ClaimAt(s, p, i)
           /\ \A j \in 1..(i - 1) : ~ClaimAt(s, p, j)
           /\ out = SubSeq(s, 1, i - 1) \o r \o SubSeq(s, i + Len(p), Len(s))
    ELSE out = s

\* what is left of s after its prefix p
ClaimRest(s, p) == SubSeq(s, Len(p) + 1, Len(s))

\* C3: fixPathname applies the first rule whose condition holds, in the order
\* /material prefix, /joy prefix, /base prefix, otherwise. Rules 1 and 2 strip
\* the prefix, append a slash and pass the result through
\* replaceComponentLinks, rule 2 then replacing (the first) material-ui by
\* joy-ui; rule 3 replaces (the first) /base/ by /base-ui/, then (the first)
\* /components/ by /react-, and appends a slash; rule 4 replaces (the first)
\* /components/ by /react- and appends a slash.
C3_FixPathnameRules ==
  (pc = "returned" /\ call.op = "fixPathname") =>
    LET p == call.pathname
        out == ret.v
        body == SubSeq(out, 1, Len(out) - 1)
    IN
      /\ ret.t = "value"
      /\ IF ClaimAt(p, sMaterial, 1)
           THEN out = ReplaceComponentLinks(ClaimRest(p, sMaterial) \o <<"/">>)
         ELSE IF ClaimAt(p, sJoy, 1)
           THEN ClaimFirstReplaced(
                  ReplaceComponentLinks(ClaimRest(p, sJoy) \o <<"/">>),
                  sMaterialUi, sJoyUi, out)
         ELSE IF ClaimAt(p, sBase, 1)
           THEN /\ out # <<>> /\ out[Len(out)] = "/"
                /\ \E i \in 0..Len(p) :
                     LET mid == IF i = 0 THEN p
                                ELSE SubSeq(p, 1, i - 1) \o sBaseUiDir
                                       \o SubSeq(p, i + Len(sBaseDir), Len(p))
                     IN /\ ClaimFirstReplaced(p, sBaseDir, sBaseUiDir, mid)
                        /\ ClaimFirstReplaced(mid, sComponentsDir, sReact, body)
         ELSE /\ out # <<>> /\ out[Len(out)] = "/"
              /\ ClaimFirstReplaced(p, sComponentsDir, sReact, body)

\* rule 3 has replaced both /base/ and /components/ in a pathname that holds
\* /components/ twice
C3_Witness ==
  /\ pc = "returned"
  /\ call.op = "fixPathname"
  /\ call.pathname = sBaseDir \o SubSeq(sComponentsDir, 2, Len(sComponentsDir))
                              \o sComponentsDir
  /\ ret.v = sBaseUiDir \o SubSeq(sReact, 2, Len(sReact)) \o sComponentsDir \o <<"/">>

\* C8: getMuiName(name) is Mui followed by name without its first Styled,
\* wherever that is; later occurrences of Styled stay, and a name without
\* Styled is only prefixed.
C8_MuiNameStripsFirstStyled ==
  (pc = "returned" /\ call.op = "getMuiName") =>
    /\ ret.t = "value"
    /\ Len(ret.v) >= 3
    /\ SubSeq(ret.v, 1, 3) = sMui
    /\ ClaimFirstReplaced(call.name, sStyled, <<>>, SubSeq(ret.v, 4, Len(ret.v)))

\* the name had Styled twice, the first not at its start, and kept the second
C8_Witness ==
  /\ pc = "returned"
  /\ call.op = "getMuiName"
  /\ call.name = <<"B">> \o sStyled \o sStyled
  /\ ret.v = sMui \o <<"B">> \o sStyled

\* s from position i to position j has no slash and is not empty
ClaimSegment(s, i, j) == i <= j /\ j <= Len(s) /\ \A k \in i..j : s[k] # "/"

\* s is matched by the pattern of extractPackageFile: somewhere \/packages,
\* later a slash, a segment, \/src\/, optionally anything up to a slash, a
\* segment, a dot and one of js, tsx, ts, d.ts
ClaimMatches(s) ==
  \E a \in 1..Len(s) :
    /\ ClaimAt(s, sPackages, a)
    /\ \E b \in (a + Len(sPackages))..Len(s) :
         /\ s[b] = "/"
         /\ \E pe \in (b + 1)..Len(s) :
              /\ ClaimSegment(s, b + 1, pe)
              /\ ClaimAt(s, sSrcDir, pe + 1)
              /\ \E st \in (pe + Len(sSrcDir) + 1)..Len(s) :
                   /\ st = pe + Len(sSrcDir) + 1 \/ s[st - 1] = "/"
                   /\ \E e \in st..Len(s) :
                        /\ ClaimSegment(s, st, e)
                        /\ e < Len(s) /\ s[e + 1] = "."
                        /\ \E k \in 1..Len(Extensions) : ClaimAt(s, Extensions[k], e + 2)

\* the file path of the call with the platform's separators turned into /
ClaimNormalised == ReplaceAllChar(call.filePath, PathSep(call.platform), "/")

\* the last path segment of s
ClaimLastSegment(s) ==
  LET slashes == { i \in 1..Len(s) : s[i] = "/" } IN
    IF slashes = {} THEN s ELSE SubSeq(s, MaxOf(slashes) + 1, Len(s))

\* s ends with t
ClaimEndsWith(s, t) == Len(t) <= Len(s) /\ SubSeq(s, Len(s) - Len(t) + 1, Len(s)) = t

\* seg without its d.ts, js, tsx or ts extension
ClaimStem(seg) ==
  IF ClaimEndsWith(seg, <<".", "d", ".", "t", "s">>) THEN SubSeq(seg, 1, Len(seg) - 5)
  ELSE IF ClaimEndsWith(seg, <<".", "t", "s", "x">>) THEN SubSeq(seg, 1, Len(seg) - 4)
  ELSE IF ClaimEndsWith(seg, <<".", "j", "s">>) \/ ClaimEndsWith(seg, <<".", "t", "s">>)
    THEN SubSeq(seg, 1, Len(seg) - 3)
  ELSE seg

\* C4: on a file path that matches, packagePath is the segment directly in
\* front of a src/ segment and name is the last path segment without its
\* js/tsx/ts/d.ts extension, whatever lies between src/ and the file.
C4_NameIsBaseName ==
  (pc = "returned" /\ call.op = "extractPackageFile" /\ ClaimMatches(ClaimNormalised)) =>
    /\ ret.t = "value"
    /\ ret.v.packagePath.t = "value"
    /\ ClaimHas(ClaimNormalised, <<"/">> \o ret.v.packagePath.v \o sSrcDir)
    /\ ret.v.name = Val(ClaimStem(ClaimLastSegment(ClaimNormalised)))

\* C5: on a file path that matches, muiPackage is packagePath with a leading
\* x- replaced by mui-, and packagePath itself when it does not begin with x-.
C5_MuiPackageLeadingX ==
  (pc = "returned" /\ call.op = "extractPackageFile" /\ ClaimMatches(ClaimNormalised)) =>
    /\ ret.t = "value"
    /\ ret.v.packagePath.t = "value"
    /\ ret.v.muiPackage =
         Val(IF ClaimAt(ret.v.packagePath.v, sXDash, 1)
               THEN sMuiDash \o ClaimRest(ret.v.packagePath.v, sXDash)
               ELSE ret.v.packagePath.v)

\* C6: on a file path that does not match, extractPackageFile throws nothing
\* and returns packagePath null, name null and muiPackage undefined.
C6_NoMatchNulls ==
  (pc = "returned" /\ call.op = "extractPackageFile" /\ ~ClaimMatches(ClaimNormalised)) =>
    ret = Val([packagePath |-> Null, name |-> Null, muiPackage |-> Undefined])

\* a path with \/packages and \/src\/ in it, but no js/tsx/ts file, gave nulls
C6_Witness ==
  /\ pc = "returned"
  /\ call.op = "extractPackageFile"
  /\ ClaimHas(call.filePath, sPackages \o <<"/", "a">> \o sSrcDir)
  /\ ClaimEndsWith(call.filePath, <<".", "m", "d">>)
  /\ ~ClaimMatches(ClaimNormalised)
  /\ ret.t = "value"
  /\ ret.v.name = Null

\* C7: getApiPath returns null exactly when the demos are absent or empty;
\* otherwise the result is the first demo's pathname up to its first #,
\* followed by hooks-api/# and the kebab-cased name when name starts with
\* use, by components-api/# and the kebab-cased name otherwise; nothing but the
\* first demo's pathname and the name decides it.
C7_ApiPathFromFirstDemo ==
  (pc = "returned" /\ call.op = "getApiPath") =>
    IF call.demos.t # "value" \/ call.demos.v = <<>>
      THEN ret = Null
      ELSE /\ ret.t = "value"
           /\ LET pathname == call.demos.v[1].demoPathname IN
                \E k \in 0..Len(pathname) :
                  /\ \A j \in 1..k : pathname[j] # "#"
                  /\ k = Len(pathname) \/ pathname[k + 1] = "#"
                  /\ ret.v = SubSeq(pathname, 1, k)
                       \o (IF ClaimAt(call.name, sUse, 1) THEN sHooksApi
                           ELSE sComponentsApi)
                       \o <<"/", "#">> \o kebabCase(call.name)

\* two demos with different pathnames, the first with a fragment, and a hook
\* name: the result is made from the first pathname without its fragment
C7_Witness ==
  /\ pc = "returned"
  /\ call.op = "getApiPath"
  /\ call.demos.t = "value"
  /\ Len(call.demos.v) = 2
  /\ call.demos.v[1].demoPathname = <<"/", "d", "/", "#", "h">>
  /\ call.demos.v[2].demoPathname = <<"#", "h">>
  /\ call.name = <<"u", "s", "e", "B", "t">>
  /\ ret.v = <<"/", "d", "/">> \o sHooksApi \o <<"/", "#", "u", "s", "e", "-", "b", "t">>

\* C9: parseFile's shouldSkip is true exactly when the filename contains
\* internal or the content contains one of @ignore - internal component.,
\* @ignore - internal hook., @ignore - do not document. (each with its dot).
C9_ShouldSkipIff ==
  (pc = "returned" /\ call.op = "parseFile" /\ ret.t = "value") =>
    (ret.v.shouldSkip <=>
       \/ ClaimHas(call.filename, sInternal)
       \/ ClaimHas(ret.v.src, sIgnoreComponent \o <<".">>)
       \/ ClaimHas(ret.v.src, sIgnoreHook \o <<".">>)
       \/ ClaimHas(ret.v.src, sIgnoreDocument \o <<".">>))

\* a file whose name has no internal, whose content has a marker without its
\* dot, was not skipped
C9_Witness ==
  /\ pc = "returned"
  /\ call.op = "parseFile"
  /\ ret.t = "value"
  /\ ~ClaimHas(call.filename, sInternal)
  /\ ret.v.src = sIgnoreHook \o <<"s">>
  /\ ~ret.v.shouldSkip

\* the lines of every comment text of the call, in order
ClaimLines == FlatLines(call.comments)

\* the positions of the lines that do not start with TODO
ClaimKept == { i \in 1..Len(ClaimLines) : ~ClaimAt(ClaimLines[i], sTODO, 1) }

\* the k-th position of ClaimKept
ClaimKeptAt(k) ==
  CHOOSE i \in ClaimKept : Cardinality({ j \in ClaimKept : j <= i }) = k

\* C10: getSymbolDescription returns the lines of the comment texts, without
\* those that start with TODO, the others in their order and joined by
\* newlines: no line of the result starts with TODO and no other line is
\* dropped or moved.
C10_DescriptionDropsTodoLines ==
  (pc = "returned" /\ call.op = "getSymbolDescription") =>
    LET out == SplitOn(ret.v, "\n") IN
      /\ \A i \in 1..Len(out) : ~ClaimAt(out[i], sTODO, 1)
      /\ IF ClaimKept = {} THEN ret.v = <<>>
         ELSE /\ Len(out) = Cardinality(ClaimKept)
              /\ \A k \in 1..Len(out) : out[k] = ClaimLines[ClaimKeptAt(k)]

\* two comment texts of two lines each, one TODO line in each, dropped
C10_Witness ==
  /\ pc = "returned"
  /\ call.op = "getSymbolDescription"
  /\ call.comments = << <<"a", "\n">> \o sTODO, sTODO \o <<"\n", "a">> >>
  /\ ret.v = <<"a", "\n", "a">>

====
